---- MODULE Spec2Model ----
(***************************************************************************)
(* A model of warship_game.py: the 10x10 board, ship placement             *)
(* (validate_bounds, place_ship, populate_board), the save codec           *)
(* (get_state, set_state, io_save_board, io_load_board), the menu, the     *)
(* recursive game_loop with its win and turn checks, and radar_scan.       *)
(* Rendering, the cheat display and the pacing delays change no state the  *)
(* game logic reads and are left out.                                      *)
(***************************************************************************)
EXTENDS Integers, Sequences, FiniteSets, TLC

VARIABLES board, pc, feedback, radar, savefile, outcome, scan, ship, call

vars == <<board, pc, feedback, radar, savefile, outcome, scan, ship, call>>

----------------------------------------------------------------------------
(* Program constants *)

Dim == 10
turns == 20
TURNS == 35

filler == "~"
MISS == "@"
HIT == "X"

Idx == 0 .. (Dim - 1)

SHIPS == <<"A", "B", "S", "D", "P">>

Kinds == {SHIPS[i] : i \in 1 .. Len(SHIPS)}

SHIPS_LEN ==
  [k \in Kinds |->
     CASE k = "A" -> 5
       [] k = "B" -> 4
       [] k = "S" -> 3
       [] k = "D" -> 3
       [] k = "P" -> 2]

Markers == Kinds \cup {filler, MISS, HIT}

----------------------------------------------------------------------------
(* Bounds of the model *)

\* Direct place_ship calls are explored on boards holding fewer ships than this.
MaxPlaced == 2

\* A player who is sinking ships wastes at most this many shots on water.
MaxStray == 2

\* The player saves early or late in a game: while at most MaxSavedShots
\* shots have been resolved, or while at most MaxSavedShips ship cells are
\* left.
MaxSavedShots == 3
MaxSavedShips == 1

\* Rows, columns and orientations tried by direct place_ship calls.
PlaceRows == {0, 8}
PlaceCols == {4, 8, 9}
PlaceOrientations == {"v", "h", "d"}

\* The (row, col, orientation) triples randint can draw in populate_board
\* that the model explores; orientation 1 is "v", 0 is "h".
Draws ==
  { <<0, 4, 0>>, <<5, 5, 0>>, <<6, 9, 1>>, <<6, 0, 1>>, <<7, 3, 1>>,
    <<0, 8, 0>>, <<9, 9, 1>> }

----------------------------------------------------------------------------
(* Board helpers *)

generate_board == [r \in Idx |-> [c \in Idx |-> filler]]

Cells == Idx \X Idx

\* Row-major enumeration of the coordinates, as the nested loops visit them.
AllCells == [k \in 1 .. (Dim * Dim) |-> <<(k - 1) \div Dim, (k - 1) % Dim>>]

\* list[i] in Python: a negative index counts from the end, anything
\* outside [-Dim, Dim) raises IndexError.
InPyRange(i) == i >= -Dim /\ i < Dim

PyIndex(i) == IF i < 0 THEN i + Dim ELSE i

SetCell(b, r, c, v) == [b EXCEPT ![r] = [@ EXCEPT ![c] = v]]

----------------------------------------------------------------------------
(* Placement *)

\* A bounds check that never looks at the cells of the run.
validate_bounds_overlapping(b, row, col, ship_len, orientation) ==
  IF orientation = "v" /\ (row + ship_len) < 10
    THEN TRUE
  ELSE IF orientation = "h" /\ (col + ship_len) < 10
    THEN TRUE
  ELSE IF orientation \notin {"h", "v"}
    THEN FALSE
  ELSE IF (row + ship_len) >= 10 \/ (col + ship_len) >= 10
    THEN FALSE
  ELSE TRUE

\* A bounds check with the cell test inverted: it wants the run occupied.
validate_bounds_inverted(b, row, col, ship_len, orientation) ==
  IF orientation = "v" /\ (row + ship_len) < 10
    THEN \A i \in 0 .. (ship_len - 1) : b[row + i][col] # filler
  ELSE IF orientation = "h" /\ (col + ship_len) < 10
    THEN \A i \in 0 .. (ship_len - 1) : b[row][col + i] # filler
  ELSE IF orientation \notin {"h", "v"}
    THEN FALSE
  ELSE IF (row + ship_len) >= 10 \/ (col + ship_len) >= 10
    THEN FALSE
  ELSE TRUE

validate_bounds(b, row, col, ship_len, orientation) ==
  IF orientation = "v" /\ (row + ship_len) < 10
    THEN \A i \in 0 .. (ship_len - 1) : b[row + i][col] = filler
  ELSE IF orientation = "h" /\ (col + ship_len) < 10
    THEN \A i \in 0 .. (ship_len - 1) : b[row][col + i] = filler
  ELSE IF orientation \notin {"h", "v"}
    THEN FALSE
  ELSE IF (row + ship_len) >= 10 \/ (col + ship_len) >= 10
    THEN FALSE
  ELSE TRUE

\* A placement that writes the run up to the first occupied cell before
\* it notices the overlap.
place_ship_eager(row, col, b, s, orientation) ==
  LET ship_len == SHIPS_LEN[s]
      inb == \/ orientation = "v" /\ (row + ship_len) < 10
             \/ orientation = "h" /\ (col + ship_len) < 10
      cell(i) == IF orientation = "v" THEN <<row + i, col>> ELSE <<row, col + i>>
      free(i) == b[cell(i)[1]][cell(i)[2]] = filler
      run == {i \in 0 .. (ship_len - 1) : \A j \in 0 .. i : free(j)}
      written == [r \in Idx |-> [c \in Idx |->
                   IF \E i \in run : cell(i) = <<r, c>> THEN s ELSE b[r][c]]]
  IN  IF ~inb
        THEN [placed |-> FALSE, board |-> b]
        ELSE [placed |-> Cardinality(run) = ship_len, board |-> written]

\* A placement that writes one cell too few.
place_ship_short(row, col, b, s, orientation) ==
  LET ship_len == SHIPS_LEN[s]
      valid == validate_bounds(b, row, col, ship_len, orientation)
  IN  IF ~valid
        THEN [placed |-> FALSE, board |-> b]
      ELSE IF orientation = "v"
        THEN [placed |-> TRUE,
              board |-> [r \in Idx |-> [c \in Idx |->
                 IF c = col /\ r >= row /\ r < row + ship_len - 1
                   THEN s ELSE b[r][c]]]]
        ELSE [placed |-> TRUE,
              board |-> [r \in Idx |-> [c \in Idx |->
                 IF r = row /\ c >= col /\ c < col + ship_len - 1
                   THEN s ELSE b[r][c]]]]

place_ship(row, col, b, s, orientation) ==
  LET ship_len == SHIPS_LEN[s]
      valid == validate_bounds(b, row, col, ship_len, orientation)
  IN  IF ~valid
        THEN [placed |-> FALSE, board |-> b]
      ELSE IF orientation = "v"
        THEN [placed |-> TRUE,
              board |-> [r \in Idx |-> [c \in Idx |->
                 IF c = col /\ r >= row /\ r < row + ship_len
                   THEN s ELSE b[r][c]]]]
      ELSE IF orientation = "h"
        THEN [placed |-> TRUE,
              board |-> [r \in Idx |-> [c \in Idx |->
                 IF r = row /\ c >= col /\ c < col + ship_len
                   THEN s ELSE b[r][c]]]]
      \* raise ValueError: not reached, validate_bounds rejects it first
      ELSE [placed |-> FALSE, board |-> b]

NoCall == [row |-> 0, col |-> 0, ship |-> "A", orientation |-> "", placed |-> FALSE]

Call(row, col, s, orientation, placed) ==
  [row |-> row, col |-> col, ship |-> s, orientation |-> orientation,
   placed |-> placed]

OnBoard(b) == {b[p[1]][p[2]] : p \in Cells} \cap Kinds

----------------------------------------------------------------------------
(* State codec: get_state / set_state and the text of checkpoint.sav *)

\* A dump that forgets the misses.
get_state_ships_and_hits(b) ==
  LET kept == SelectSeq(AllCells, LAMBDA p : b[p[1]][p[2]] \notin {"~", MISS})
  IN  [i \in 1 .. Len(kept) |-> <<b[kept[i][1]][kept[i][2]], kept[i][1], kept[i][2]>>]

get_state(b) ==
  LET kept == SelectSeq(AllCells, LAMBDA p : b[p[1]][p[2]] # "~")
  IN  [i \in 1 .. Len(kept) |-> <<b[kept[i][1]][kept[i][2]], kept[i][1], kept[i][2]>>]

\* board[ri][ci] = ship for each triple in order; an index outside
\* [-Dim, Dim) raises IndexError and ends the load.
RECURSIVE set_state(_, _)
set_state(b, state) ==
  IF state = <<>>
    THEN [error |-> "", board |-> b]
    ELSE LET t == Head(state)
         IN  IF InPyRange(t[2]) /\ InPyRange(t[3])
               THEN set_state(SetCell(b, PyIndex(t[2]), PyIndex(t[3]), t[1]),
                              Tail(state))
               ELSE [error |-> "IndexError", board |-> b]

DigitText == <<"0", "1", "2", "3", "4", "5", "6", "7", "8", "9">>

\* str(n) for a board index.
StrInt(n) == DigitText[n + 1]

\* int(text): the digits, and the two other texts of the model that int
\* accepts; int("x") raises ValueError.
IntTexts == {DigitText[i] : i \in 1 .. Len(DigitText)} \cup {"10", "-1"}

IntOf(text) ==
  CASE text = "10" -> 10
    [] text = "-1" -> -1
    [] OTHER -> CHOOSE n \in Idx : DigitText[n + 1] = text

\* str((marker, ri, ci)), character by character: ('A', 0, 1)
StrTuple(t) ==
  <<"(", "'", t[1], "'", ",", " ", StrInt(t[2]), ",", " ", StrInt(t[3]), ")">>

\* eval of one line written by io_save_board.
EvalTuple(line) == <<line[3], IntOf(line[7]), IntOf(line[10])>>

NoFile == [exists |-> FALSE, lines |-> <<>>]

io_save_board(b) ==
  LET state == get_state(b)
  IN  [exists |-> TRUE, lines |-> [i \in 1 .. Len(state) |-> StrTuple(state[i])]]

io_load_board(file) ==
  set_state(generate_board,
            [i \in 1 .. Len(file.lines) |-> EvalTuple(file.lines[i])])

\* A clear that leaves the file where it is.
io_clear_save_keeps(file) == file

\* os.remove in a try/except: the file is gone afterwards either way.
io_clear_save(file) == NoFile

----------------------------------------------------------------------------
(* Queries on the board *)

Count(b, markers) == Cardinality({p \in Cells : b[p[1]][p[2]] \in markers})

get_turn(b) == Count(b, {MISS, HIT}) + 1

\* A mask whose keep list also holds the patrol boat's letter.
mask_board_keeps_patrol(b) ==
  [r \in Idx |-> [c \in Idx |->
     IF b[r][c] \in {filler, MISS, HIT, "P"} THEN b[r][c] ELSE filler]]

mask_board(b) ==
  [r \in Idx |-> [c \in Idx |->
     IF b[r][c] \in {filler, MISS, HIT} THEN b[r][c] ELSE filler]]

\* A win check whose ignore list lacks the miss marker.
win_condition_without_miss(b) ==
  \A p \in Cells : b[p[1]][p[2]] \in {HIT, "~"}

win_condition(b) == \A p \in Cells : b[p[1]][p[2]] \in {HIT, MISS, "~"}

\* it.product(range(-1, 2), range(-1, 2)), in the order it is generated.
Offsets ==
  << <<-1, -1>>, <<-1, 0>>, <<-1, 1>>,
     << 0, -1>>, << 0, 0>>, << 0, 1>>,
     << 1, -1>>, << 1, 0>>, << 1, 1>> >>

\* The filter of radar_scan, as written.
radar_valid(r, c, t) ==
  (r + t[1] < 10) /\ (c + t[1] > -1) /\ (r + t[2] < 10) /\ (c + t[2] > -1)

\* any(map(check, filter(valid, offsets))): lazy, so the scan stops at the
\* first ship it reads or at the first read that raises IndexError.
\* reads collects the index pairs used, before Python wraps negative ones.
RECURSIVE radar_from(_, _, _, _, _)
radar_from(b, r, c, k, reads) ==
  IF k > Len(Offsets)
    THEN [result |-> "False", reads |-> reads]
    ELSE LET t == Offsets[k]
             i == r + t[1]
             j == c + t[2]
             seen == reads \cup {<<i, j>>}
         IN  IF ~radar_valid(r, c, t)
               THEN radar_from(b, r, c, k + 1, reads)
             ELSE IF ~(InPyRange(i) /\ InPyRange(j))
               THEN [result |-> "IndexError", reads |-> seen]
             ELSE IF b[PyIndex(i)][PyIndex(j)] \notin {MISS, HIT, "~"}
               THEN [result |-> "True", reads |-> seen]
             ELSE radar_from(b, r, c, k + 1, seen)

radar_scan(b, r, c) == radar_from(b, r, c, 1, {})

\* What the last turn's radar did: where it was centred, the index pairs it
\* read and what it returned; None when it did not run.
NoScan == [result |-> "None", reads |-> {}, at |-> <<>>]

Scanned(b, r, c) ==
  LET s == radar_scan(b, r, c)
  IN  [result |-> s.result, reads |-> s.reads, at |-> <<r, c>>]

----------------------------------------------------------------------------
(* One turn of game_loop *)

\* A validation that lets through whatever int() can parse.
io_validate_input_int(val) == val \in IntTexts

io_validate_input(val) == val \in {DigitText[i] : i \in 1 .. Len(DigitText)}

\* A resolution that treats only a miss as already targeted.
resolve_shot_miss_only(b, r, c, rad) ==
  LET hit_miss == b[r][c]
      hit == SetCell(b, r, c, HIT)
  IN  IF hit_miss = MISS
        THEN [board |-> b, outcome |-> "AlreadyTargeted", scan |-> NoScan]
        ELSE [board |-> hit, outcome |-> "Hit",
              scan |-> IF rad THEN Scanned(hit, r, c) ELSE NoScan]

\* A turn without the test for a cell that was targeted before: a second
\* shot at a miss is taken for a hit.
resolve_shot_retargets(b, r, c, rad) ==
  LET hit_miss == b[r][c]
      hit == SetCell(b, r, c, HIT)
      miss == SetCell(b, r, c, MISS)
  IN  IF hit_miss # filler
        THEN [board |-> hit, outcome |-> "Hit",
              scan |-> IF rad THEN Scanned(hit, r, c) ELSE NoScan]
        ELSE [board |-> miss, outcome |-> "Miss",
              scan |-> IF rad THEN Scanned(miss, r, c) ELSE NoScan]

\* A turn that writes the two markers the wrong way round.
resolve_shot_swapped(b, r, c, rad) ==
  LET hit_miss == b[r][c]
      hit == SetCell(b, r, c, MISS)
      miss == SetCell(b, r, c, HIT)
  IN  IF hit_miss = MISS \/ hit_miss = HIT
        THEN [board |-> b, outcome |-> "AlreadyTargeted", scan |-> NoScan]
      ELSE IF hit_miss # filler /\ hit_miss # MISS
        THEN [board |-> hit, outcome |-> "Hit",
              scan |-> IF rad THEN Scanned(hit, r, c) ELSE NoScan]
      ELSE IF hit_miss = filler
        THEN [board |-> miss, outcome |-> "Miss",
              scan |-> IF rad THEN Scanned(miss, r, c) ELSE NoScan]
      ELSE [board |-> b, outcome |-> "None", scan |-> NoScan]

\* Lines 368-393, for r and c that index the board: the cell is read, a
\* targeted cell is left alone, a ship cell becomes X and water becomes @;
\* the radar runs after a write when it is switched on.
resolve_shot(b, r, c, rad) ==
  LET hit_miss == b[r][c]
      hit == SetCell(b, r, c, HIT)
      miss == SetCell(b, r, c, MISS)
  IN  IF hit_miss = MISS \/ hit_miss = HIT
        THEN [board |-> b, outcome |-> "AlreadyTargeted", scan |-> NoScan]
      ELSE IF hit_miss # filler /\ hit_miss # MISS
        THEN [board |-> hit, outcome |-> "Hit",
              scan |-> IF rad THEN Scanned(hit, r, c) ELSE NoScan]
      ELSE IF hit_miss = filler
        THEN [board |-> miss, outcome |-> "Miss",
              scan |-> IF rad THEN Scanned(miss, r, c) ELSE NoScan]
      ELSE [board |-> b, outcome |-> "None", scan |-> NoScan]

\* Lines 355-393 once neither text is the save command.
game_turn(b, rt, ct, rad) ==
  IF io_validate_input(rt) /\ io_validate_input(ct)
    THEN LET r == IntOf(rt)
             c == IntOf(ct)
         IN  IF InPyRange(r) /\ InPyRange(c)
               THEN resolve_shot(b, PyIndex(r), PyIndex(c), rad)
               ELSE [board |-> b, outcome |-> "IndexError", scan |-> NoScan]
    ELSE [board |-> b, outcome |-> "InvalidInput", scan |-> NoScan]

\* What stops the program: an exception nobody catches.
Crashes(t) == t.outcome = "IndexError" \/ t.scan.result = "IndexError"

AmmoText == "You ran out of ammo, try again"

\* Lines 335-342, the checks at the top of every game_loop call.
game_loop_entry(b) ==
  IF win_condition(b) THEN "won"
  ELSE IF get_turn(b) = turns THEN "ammo"
  ELSE "await"

----------------------------------------------------------------------------
(* The player *)

FirstCell(b, markers) ==
  LET found == SelectSeq(AllCells, LAMBDA p : b[p[1]][p[2]] \in markers)
  IN  IF found = <<>> THEN {} ELSE {found[1]}

LastCell(b, markers) ==
  LET found == SelectSeq(AllCells, LAMBDA p : b[p[1]][p[2]] \in markers)
  IN  IF found = <<>> THEN {} ELSE {found[Len(found)]}

\* Untargeted cells the player fires at: the first ship cell in reading
\* order while at most MaxStray shots went into water, or the first water
\* cell while no ship was hit or fewer than MaxStray shots went into water.
FreshTargets(b) ==
  (IF Count(b, {MISS}) <= MaxStray THEN FirstCell(b, Kinds) ELSE {})
  \cup
  (IF Count(b, {HIT}) = 0 \/ Count(b, {MISS}) < MaxStray
     THEN FirstCell(b, {filler}) ELSE {})

\* Targeted cells the player fires at again.
RepeatTargets(b) == FirstCell(b, {MISS, HIT}) \cup LastCell(b, {MISS, HIT})

ShotInputs(b) ==
  {<<StrInt(p[1]), StrInt(p[2])>> : p \in FreshTargets(b) \cup RepeatTargets(b)}
  \cup {<<"x", "0">>, <<"0", "10">>, <<"-1", "-1">>}

SaveInputs == {<<"m">>, <<"0", "m">>, <<"x", "m">>}

----------------------------------------------------------------------------
(* The program *)

Init ==
  /\ board = generate_board
  /\ pc = "menu"
  /\ feedback = ""
  /\ radar = FALSE
  /\ savefile = NoFile
  /\ outcome = "None"
  /\ scan = NoScan
  /\ ship = 0
  /\ call = NoCall

\* A game_loop in which the menu call at turn 20 returns and the loop goes
\* on to ask for a row.
EnterGameLoop_falls_through(b, file, rad) ==
  LET at == game_loop_entry(b)
  IN  /\ board' = b
      /\ radar' = rad
      /\ pc' = IF at = "ammo" THEN "await" ELSE at
      /\ feedback' = IF at = "ammo" THEN AmmoText ELSE ""
      /\ savefile' = IF at = "await" THEN file ELSE io_clear_save(file)

\* game_loop(b, cheats, rad) up to its first input(): a win clears the save
\* and shows the win screen, turn 20 clears the save and returns to the
\* menu, otherwise the player is asked for a row.
EnterGameLoop(b, file, rad) ==
  LET at == game_loop_entry(b)
  IN  /\ board' = b
      /\ radar' = rad
      /\ pc' = IF at = "ammo" THEN "menu" ELSE at
      /\ feedback' = IF at = "ammo" THEN AmmoText ELSE ""
      /\ savefile' = IF at = "await" THEN file ELSE io_clear_save(file)

\* io_main_menu: the choice "radar".
MenuRadar ==
  /\ pc = "menu"
  /\ radar' = ~radar
  /\ outcome' = "None" /\ scan' = NoScan
  /\ UNCHANGED <<board, pc, feedback, savefile, ship, call>>

\* io_main_menu: a choice that is none of n, c, q.
MenuIncorrect ==
  /\ pc = "menu"
  /\ feedback' = "Incorrect choice"
  /\ outcome' = "None" /\ scan' = NoScan
  /\ UNCHANGED <<board, pc, radar, savefile, ship, call>>

\* io_main_menu: the choice "n", up to the first draw of populate_board.
MenuNew ==
  /\ pc = "menu"
  /\ board' = generate_board
  /\ pc' = "populate"
  /\ ship' = 1
  /\ feedback' = ""
  /\ outcome' = "None" /\ scan' = NoScan
  /\ call' = NoCall
  /\ UNCHANGED <<radar, savefile>>

\* populate_board: one pass of the while loop, with the values drawn.
\* After the last ship the board goes to game_loop.
Draw(d) ==
  /\ pc = "populate"
  /\ LET orientation == IF d[3] = 1 THEN "v" ELSE "h"
         res == place_ship(d[1], d[2], board, SHIPS[ship], orientation)
         done == res.placed /\ ship = Len(SHIPS)
     IN  /\ call' = Call(d[1], d[2], SHIPS[ship], orientation, res.placed)
         /\ ship' = IF done THEN 0 ELSE IF res.placed THEN ship + 1 ELSE ship
         /\ IF done
              THEN EnterGameLoop(res.board, savefile, radar)
              ELSE /\ board' = res.board
                   /\ UNCHANGED <<pc, feedback, radar, savefile>>
  /\ UNCHANGED <<outcome, scan>>

\* io_main_menu: the choice "c". Without a save file open() raises.
MenuContinue ==
  /\ pc = "menu"
  /\ outcome' = "None" /\ scan' = NoScan
  /\ IF ~savefile.exists
       THEN /\ pc' = "crashed"
            /\ UNCHANGED <<board, feedback, radar, savefile>>
       ELSE LET loaded == io_load_board(savefile)
            IN  IF loaded.error # ""
                  THEN /\ pc' = "crashed"
                       /\ UNCHANGED <<board, feedback, radar, savefile>>
                  ELSE EnterGameLoop(loaded.board, savefile, radar)
  /\ UNCHANGED <<ship, call>>

\* io_main_menu: the choice "q".
MenuQuit ==
  /\ pc = "menu"
  /\ pc' = "exit"
  /\ outcome' = "None" /\ scan' = NoScan
  /\ UNCHANGED <<board, feedback, radar, savefile, ship, call>>

\* io_win_screen: enter is pressed and the menu opens with its defaults.
WinScreen ==
  /\ pc = "won"
  /\ pc' = "menu"
  /\ feedback' = "Nice one, let's go again?"
  /\ radar' = FALSE
  /\ outcome' = "None" /\ scan' = NoScan
  /\ UNCHANGED <<board, savefile, ship, call>>

\* game_loop: "m" typed as the row, or as the column after any row text:
\* the board is saved and the menu opens.
Save(i) ==
  /\ pc = "await"
  /\ \/ Count(board, {MISS, HIT}) <= MaxSavedShots
     \/ Count(board, Kinds) <= MaxSavedShips
  /\ savefile' = io_save_board(board)
  /\ pc' = "menu"
  /\ feedback' = "Game saved"
  /\ outcome' = "Saved" /\ scan' = NoScan
  /\ UNCHANGED <<board, radar, ship, call>>

\* game_loop: a row text and a column text, neither the save command; the
\* turn is resolved and game_loop calls itself.
Shot(i) ==
  /\ pc = "await"
  /\ LET t == game_turn(board, i[1], i[2], radar)
     IN  /\ outcome' = t.outcome
         /\ scan' = t.scan
         /\ IF Crashes(t)
              THEN /\ board' = t.board
                   /\ pc' = "crashed"
                   /\ UNCHANGED <<feedback, radar, savefile>>
              ELSE EnterGameLoop(t.board, savefile, radar)
  /\ UNCHANGED <<ship, call>>

Next ==
  \/ MenuRadar
  \/ MenuIncorrect
  \/ MenuNew
  \/ \E d \in Draws : Draw(d)
  \/ MenuContinue
  \/ MenuQuit
  \/ WinScreen
  \/ \E i \in SaveInputs : Save(i)
  \/ \E i \in ShotInputs(board) : Shot(i)

Spec == Init /\ [][Next]_vars

\* What the session is, as the player sees it.
Session ==
  CASE pc = "await" -> "AwaitingShot"
    [] pc = "won" -> "Won"
    [] pc = "menu" /\ feedback = AmmoText -> "OutOfAmmo"
    [] OTHER -> "None"

ShotCount(b) == Count(b, {MISS, HIT})

----------------------------------------------------------------------------
(* place_ship called directly, on boards built by earlier calls *)

InitPlace ==
  /\ board = generate_board
  /\ pc = "place"
  /\ feedback = ""
  /\ radar = FALSE
  /\ savefile = NoFile
  /\ outcome = "None"
  /\ scan = NoScan
  /\ ship = 0
  /\ call = NoCall

\* One call of place_ship for a kind that is not on the board yet.
PlaceShipCall(row, col, s, orientation) ==
  /\ pc = "place"
  /\ Cardinality(OnBoard(board)) < MaxPlaced
  /\ s \notin OnBoard(board)
  /\ LET res == place_ship(row, col, board, s, orientation)
     IN  /\ board' = res.board
         /\ call' = Call(row, col, s, orientation, res.placed)
  /\ UNCHANGED <<pc, feedback, radar, savefile, outcome, scan, ship>>

NextPlace ==
  \E row \in PlaceRows, col \in PlaceCols, s \in Kinds, o \in PlaceOrientations :
    PlaceShipCall(row, col, s, o)

SpecPlace == InitPlace /\ [][NextPlace]_vars

----------------------------------------------------------------------------
(* populate_board on an empty board, over a wider set of draws *)

PopRows == {0, 5}
PopCols == {0, 4, 8}

\* (row, col, orientation) as randint returns them, cut down to two rows
\* and three columns.
PopDraws == PopRows \X PopCols \X {0, 1}

InitPopulate ==
  /\ board = generate_board
  /\ pc = "populate"
  /\ feedback = ""
  /\ radar = FALSE
  /\ savefile = NoFile
  /\ outcome = "None"
  /\ scan = NoScan
  /\ ship = 1
  /\ call = NoCall

NextPopulate == \E d \in PopDraws : Draw(d)

SpecPopulate == InitPopulate /\ [][NextPopulate]_vars

\* The draws explored for termination: four horizontal anchors, two
\* vertical ones in column 8, and one that no kind fits.
FairDraws ==
  { <<0, 0, 0>>, <<0, 4, 0>>, <<5, 0, 0>>, <<5, 4, 0>>,
    <<0, 8, 1>>, <<5, 8, 1>>, <<0, 8, 0>> }

NextPopulateFair == \E d \in FairDraws : Draw(d)

\* A pass of the loop whose draw is accepted.
DrawAccepted == \E d \in FairDraws : Draw(d) /\ call'.placed

\* randint is uniform: while some draw would be accepted, one is made
\* sooner or later.
SpecPopulateFair ==
  /\ InitPopulate
  /\ [][NextPopulateFair]_vars
  /\ WF_vars(DrawAccepted)

----------------------------------------------------------------------------
(* io_load_board on a checkpoint.sav that was written outside the game *)

\* The text of four files: one io_save_board could have written, one with a
\* marker that is no ship, hit or miss, one with row -1, one with column 10.
LoadFiles ==
  { [exists |-> TRUE, lines |-> << StrTuple(<<"P", 0, 0>>), StrTuple(<<"P", 1, 0>>) >>],
    [exists |-> TRUE,
     lines |-> << StrTuple(<<"P", 0, 0>>), StrTuple(<<"P", 1, 0>>),
                  <<"(", "'", "Z", "'", ",", " ", "5", ",", " ", "5", ")">> >>],
    [exists |-> TRUE,
     lines |-> << <<"(", "'", "P", "'", ",", " ", "-1", ",", " ", "0", ")">>,
                  StrTuple(<<"P", 8, 0>>) >>],
    [exists |-> TRUE,
     lines |-> << StrTuple(<<"P", 0, 0>>),
                  <<"(", "'", "P", "'", ",", " ", "0", ",", " ", "10", ")">> >>] }

InitLoad ==
  /\ board = generate_board
  /\ pc = "menu"
  /\ feedback = ""
  /\ radar = FALSE
  /\ savefile \in LoadFiles
  /\ outcome = "None"
  /\ scan = NoScan
  /\ ship = 0
  /\ call = NoCall

\* The menu with the file in place, and the game that "c" starts from it.
NextLoad ==
  \/ MenuRadar
  \/ MenuContinue
  \/ WinScreen
  \/ \E i \in ShotInputs(board) : Shot(i)

SpecLoad == InitLoad /\ [][NextLoad]_vars

----------------------------------------------------------------------------
(* Properties *)

Digits == {"0", "1", "2", "3", "4", "5", "6", "7", "8", "9"}

\* The cells a ship of kind s covers from (row, col) in an orientation.
Run(row, col, s, orientation) ==
  IF orientation = "v"
    THEN {<<row + i, col>> : i \in 0 .. (SHIPS_LEN[s] - 1)}
    ELSE {<<row, col + i>> : i \in 0 .. (SHIPS_LEN[s] - 1)}

\* The placement rule with the boundary cell included.
InclusiveFits(b, row, col, s, orientation) ==
  /\ orientation \in {"h", "v"}
  /\ orientation = "v" => row + SHIPS_LEN[s] <= Dim
  /\ orientation = "h" => col + SHIPS_LEN[s] <= Dim
  /\ \A p \in Run(row, col, s, orientation) : b[p[1]][p[2]] = filler

\* The in-bounds cells among the 8 neighbours of a cell.
Neighbours(p) ==
  {q \in Cells : q # p /\ q[1] - p[1] \in {-1, 0, 1} /\ q[2] - p[2] \in {-1, 0, 1}}

\* C1: place_ship accepts a placement exactly when the orientation is
\* Horizontal or Vertical, the run is in bounds under the inclusive rule
\* (row + length <= 10, col + length <= 10) and every cell of the run is
\* Empty; so PatrolBoat Horizontal at (0,8) on an empty grid is accepted.
C1_AcceptsInclusive ==
  [][pc = "place" =>
       (call'.placed <=>
          InclusiveFits(board, call'.row, call'.col, call'.ship,
                        call'.orientation))]_vars

\* C2: the session is OutOfAmmo exactly when ShotCount has reached the turn
\* limit of 20 with ship cells remaining: a session that is out of ammo has
\* resolved 20 shots, and one that has resolved fewer still awaits a shot.
C2_OutOfAmmoAtTwentyShots ==
  /\ Session = "OutOfAmmo" => ShotCount(board) = turns
  /\ Session = "AwaitingShot" => ShotCount(board) < turns

\* C3: radar_scan never reads a position outside [0,10)x[0,10): no negative
\* index and no index of 10 or more.
C3_ScanReadsInBounds ==
  \A p \in scan.reads : p[1] \in Idx /\ p[2] \in Idx

\* C4: radar_scan at the cell just shot returns true if and only if one of
\* the in-bounds neighbours of that cell is Occupied.
C4_ScanIffNeighbourShip ==
  scan.result # "None" =>
    (scan.result = "True" <=>
       \E q \in Neighbours(scan.at) : board[q[1]][q[2]] \in Kinds)

\* C5: a rejected place_ship (unrecognized orientation, out of bounds, or
\* overlap anywhere in the run) leaves every cell of the grid as it was.
C5_RejectionIsAtomic ==
  [][(pc = "place" /\ ~call'.placed) => board' = board]_vars

\* A rejection for an overlap at the last cell of a horizontal run whose
\* other cells are free.
C5_Witness ==
  /\ pc = "place"
  /\ ~call.placed
  /\ call.orientation = "h"
  /\ call.col + SHIPS_LEN[call.ship] < 10
  /\ \A i \in 0 .. (SHIPS_LEN[call.ship] - 1) :
       (board[call.row][call.col + i] = filler) <=> (i < SHIPS_LEN[call.ship] - 1)

C7_RoundTrip ==
  LET loaded == io_load_board(io_save_board(board))
  IN  loaded.error = "" /\ loaded.board = board

\* A game with a hit and a miss on the board that was saved and continued.
C7_Witness ==
  /\ pc = "await"
  /\ outcome = "None"
  /\ savefile.exists
  /\ Count(board, {HIT}) > 0
  /\ Count(board, {MISS}) > 0
  /\ Count(board, Kinds) > 0
  /\ io_load_board(savefile).board = board

\* C8: the session is Won if and only if the grid has no Occupied cell: the
\* shot that hits the last ship cell makes it Won, and no session is Won or
\* awaits a shot otherwise.
C8_WonIffNoShips ==
  /\ pc = "won" => win_condition(board)
  /\ pc = "await" => ~win_condition(board)
  /\ (outcome = "Hit" /\ win_condition(board)) => pc = "won"

\* C9: a shot at a cell that is already Hit or Miss yields AlreadyTargeted
\* and changes no cell and not the shot count.
C9_RepeatIsAlreadyTargeted ==
  [][\A i \in ShotInputs(board) :
       (/\ i[1] \in Digits /\ i[2] \in Digits
        /\ board[IntOf(i[1])][IntOf(i[2])] \in {MISS, HIT}
        /\ Shot(i))
       => /\ outcome' = "AlreadyTargeted"
          /\ board' = board
          /\ ShotCount(board') = ShotCount(board)
          /\ pc' = "await"]_vars

\* A cell was fired at again after at least two other shots.
C9_Witness ==
  /\ pc = "await"
  /\ outcome = "AlreadyTargeted"
  /\ ShotCount(board) >= 3

\* C10: a shot whose row or column text is not one of "0".."9" (and is not
\* the save command) yields InvalidInput: no cell changes, the turn number
\* stays and the session still awaits a shot.
C10_InvalidInputIsIgnored ==
  [][\A i \in ShotInputs(board) :
       ((i[1] \notin Digits \/ i[2] \notin Digits) /\ Shot(i))
       => /\ outcome' = "InvalidInput"
          /\ board' = board
          /\ get_turn(board') = get_turn(board)
          /\ scan' = NoScan
          /\ pc' = "await"]_vars

\* An invalid text was typed in a game that has shots on the board.
C10_Witness ==
  /\ pc = "await"
  /\ outcome = "InvalidInput"
  /\ ShotCount(board) > 0

\* The triples a file holds, and whether one of them has a marker that is no
\* ship kind, hit or miss, or a row or column outside 0 .. 9.
FileState(file) == [i \in 1 .. Len(file.lines) |-> EvalTuple(file.lines[i])]

CorruptFile(file) ==
  \E i \in 1 .. Len(file.lines) :
    LET t == FileState(file)[i]
    IN  t[1] \notin Kinds \cup {HIT, MISS} \/ t[2] \notin Idx \/ t[3] \notin Idx

\* C11: "c" on a save file with an unrecognized marker or with a row or
\* column outside 0 .. 9 fails: no game starts, the board is left as it was,
\* no cell holds a marker outside the alphabet.
C11_CorruptLoadFails ==
  [][(MenuContinue /\ savefile.exists /\ CorruptFile(savefile))
       => /\ pc' = "crashed"
          /\ board' = board
          /\ \A p \in Cells : board'[p[1]][p[2]] \in Markers]_vars

\* The board with the cells of one ship kind turned back into water.
Erase(b, k) ==
  [r \in Idx |-> [c \in Idx |-> IF b[r][c] = k THEN filler ELSE b[r][c]]]

\* C12: the masked board holds no ship letter, every hit, miss and water
\* cell is in it unchanged at its position, and a board that differs only by
\* an afloat ship that is water instead has the same masked board.
C12_MaskHidesShips ==
  LET masked == mask_board(board)
  IN  /\ \A p \in Cells :
           /\ masked[p[1]][p[2]] \notin Kinds
           /\ board[p[1]][p[2]] \in {HIT, MISS, filler}
                => masked[p[1]][p[2]] = board[p[1]][p[2]]
      /\ \A k \in Kinds : mask_board(Erase(board, k)) = masked

\* A game in progress with ship cells, hits and misses on the board.
C12_Witness ==
  /\ pc = "await"
  /\ Count(board, Kinds) > 0
  /\ Count(board, {HIT}) > 0
  /\ Count(board, {MISS}) > 0
  /\ mask_board(board) # board

\* C13: the win check is true exactly when the dump of the board holds no
\* triple with a ship letter.
C13_WonIffNoShipTriple ==
  LET state == get_state(board)
  IN  win_condition(board) <=> \A i \in 1 .. Len(state) : state[i][1] \notin Kinds

\* A won board with hits and misses in its dump, and a board in play.
C13_Witness ==
  /\ pc = "won"
  /\ win_condition(board)
  /\ Len(get_state(board)) > Count(board, {HIT})

\* The cells of kind k are exactly one run of the kind's length.
IsRun(b, k) ==
  LET cs == {p \in Cells : b[p[1]][p[2]] = k}
  IN  /\ Cardinality(cs) = SHIPS_LEN[k]
      /\ \E p \in cs, o \in {"v", "h"} :
           /\ cs = Run(p[1], p[2], k, o)
           /\ \A q \in Run(p[1], p[2], k, o) : q[1] \in Idx /\ q[2] \in Idx

\* C14: while populate_board runs every kind already placed is one straight
\* run of its length and no later kind is on the board; when it returns all
\* five kinds are such runs, 17 ship cells in all, none shared.
C14_FleetIsFiveRuns ==
  /\ pc = "populate" =>
       \A i \in 1 .. Len(SHIPS) :
         IF i < ship THEN IsRun(board, SHIPS[i]) ELSE Count(board, {SHIPS[i]}) = 0
  /\ pc = "await" =>
       /\ \A k \in Kinds : IsRun(board, k)
       /\ Count(board, Kinds) = 17
       /\ Count(board, {filler}) = Dim * Dim - 17

\* populate_board has returned and its last draw placed the patrol boat.
C14_Witness ==
  /\ pc = "await"
  /\ call.placed /\ call.ship = "P"
  /\ Count(board, Kinds) = 17

\* C15: a step of a game in progress leaves every cell as it was or turns a
\* ship cell into a hit or a water cell into a miss, so a hit stays a hit
\* and a miss stays a miss; a shot that is resolved as a hit or a miss
\* changes exactly one cell.
C15_ShotsArePermanent ==
  [][pc = "await" =>
       /\ \A p \in Cells :
            \/ board'[p[1]][p[2]] = board[p[1]][p[2]]
            \/ board[p[1]][p[2]] \in Kinds /\ board'[p[1]][p[2]] = HIT
            \/ board[p[1]][p[2]] = filler /\ board'[p[1]][p[2]] = MISS
       /\ outcome' \in {"Hit", "Miss"} =>
            Cardinality({p \in Cells : board'[p[1]][p[2]] # board[p[1]][p[2]]}) = 1
       /\ outcome' \notin {"Hit", "Miss"} => board' = board]_vars

\* A hit has just been resolved on a board that already had hits and misses.
C15_Witness ==
  /\ outcome = "Hit"
  /\ Count(board, {HIT}) > 1
  /\ Count(board, {MISS}) > 0

\* C16: a winning hit that is also the last shot of the ammunition ends the
\* game as won, and out of ammo is never reported for a board without ship
\* cells.
C16_WonBeforeOutOfAmmo ==
  /\ Session = "OutOfAmmo" => ~win_condition(board)
  /\ (outcome = "Hit" /\ win_condition(board) /\ get_turn(board) = turns)
       => Session = "Won"

\* C17: from the win screen, and from the menu that a win or the end of the
\* ammunition opened, no step resolves a shot or changes a cell of the
\* board; the only way on is a new game on an empty board or a loaded save.
C17_TerminalIsFinal ==
  [][(pc = "won" \/ feedback \in {AmmoText, "Nice one, let's go again?"})
       => \/ board' = board /\ outcome' = "None"
          \/ pc' = "populate" /\ board' = generate_board /\ outcome' = "None"
          \/ /\ savefile.exists
             /\ board' = io_load_board(savefile).board
             /\ outcome' = "None"]_vars

\* The menu after a win, with the won board still in place.
C17_Witness ==
  /\ pc = "menu"
  /\ feedback = "Nice one, let's go again?"
  /\ win_condition(board)
  /\ Count(board, {HIT}) = 17

\* C18: while populate_board places the fleet, some row, column and
\* orientation that randint can draw is accepted for the kind whose turn it
\* is; with draws that are fair, the loop ends with all five kinds placed.
C18_PopulateTerminates ==
  /\ [](pc = "populate" =>
          \E row \in Idx, col \in Idx, o \in {"v", "h"} :
            validate_bounds(board, row, col, SHIPS_LEN[SHIPS[ship]], o))
  /\ <>(pc # "populate" /\ ship = 0 /\ Count(board, Kinds) = 17)

\* The patrol boat's turn, four kinds placed, and a draw just rejected.
C18_Witness ==
  /\ pc = "populate"
  /\ ship = Len(SHIPS)
  /\ call.ship = "P" /\ ~call.placed
  /\ Count(board, Kinds) = 15

\* The boards populate_board can return from the draws of the model.
RECURSIVE Populated(_, _)
Populated(b, i) ==
  IF i > Len(SHIPS)
    THEN {b}
    ELSE UNION { LET res == place_ship(d[1], d[2], b, SHIPS[i], IF d[3] = 1 THEN "v" ELSE "h")
                 IN  IF res.placed THEN Populated(res.board, i + 1) ELSE {}
                 : d \in Draws }

PopulatedBoards == Populated(generate_board, 1)

\* The board is b with shots on it: hits on ship cells, misses on water.
ShotsOn(b, f) ==
  \A p \in Cells :
    /\ b[p[1]][p[2]] = HIT => f[p[1]][p[2]] \in Kinds
    /\ b[p[1]][p[2]] = MISS => f[p[1]][p[2]] = filler
    /\ b[p[1]][p[2]] \notin {HIT, MISS} => b[p[1]][p[2]] = f[p[1]][p[2]]

\* C19: in a game, in progress or over, hits and afloat ship cells together
\* are 17, and the board is a board populate_board returned with hits only
\* where it had ship cells and misses only where it had water.
C19_ShipCellsConserved ==
  (pc \in {"await", "won"} \/ Session = "OutOfAmmo" \/ outcome \in {"Hit", "Miss", "Saved"})
    => /\ Count(board, {HIT}) + Count(board, Kinds) = 17
       /\ \E f \in PopulatedBoards : ShotsOn(board, f)

\* A miss has just been resolved in a game with hits and afloat ship cells.
C19_Witness ==
  /\ pc = "await"
  /\ outcome = "Miss"
  /\ Count(board, {HIT}) > 0
  /\ Count(board, Kinds) > 0
  /\ Count(board, {MISS}) > 1

\* C20: a save file comes into being or changes only by the save command of
\* a game in progress, it goes away only when a game is won or runs out of
\* ammunition, and whenever that happens no save file is left, whichever
\* game wrote it.
C20_SaveClearedAtEnd ==
  [][/\ (savefile'.exists /\ savefile' # savefile)
          => pc = "await" /\ outcome' = "Saved" /\ savefile' = io_save_board(board)
     /\ (savefile.exists /\ ~savefile'.exists)
          => pc' = "won" \/ (pc' = "menu" /\ feedback' = AmmoText)
     /\ (pc' = "won" \/ (pc' = "menu" /\ feedback' = AmmoText))
          => ~savefile'.exists]_vars

\* Out of ammunition in a game without a hit, and no save file is left.
C20_Witness ==
  /\ Session = "OutOfAmmo"
  /\ ~savefile.exists
  /\ Count(board, {HIT}) = 0

====
